---- MODULE Spec2Model ----
(***************************************************************************)
(* The vector index of CareSync: VectorStoreService                        *)
(* (app/services/vector_store_service.py) and the FAISSVectorStore and     *)
(* ChromaVectorStore backends (app/vector_store/base.py), as handles on    *)
(* one index directory; and the services built on it: LLMService,          *)
(* ChatService and DocumentService (app/services).                          *)
(*                                                                         *)
(* Specifications.  Spec: the index classes under inserts and searches.    *)
(* SpecDelete: the stores of base.py under inserts and deletes.  SpecChat: *)
(* ChatService and LLMService.  SpecDoc: DocumentService on a store of     *)
(* base.py.  SpecSplit: the extraction loops and _split_text.  SpecShared:  *)
(* two VectorStoreService objects on one index directory.  SpecLoop: the   *)
(* coroutines of requests in flight on the event loop, statement by        *)
(* statement.                                                              *)
(*                                                                         *)
(* Numbers.  An embedding is a point on a line, in units of 1/2; the L2    *)
(* score FAISS reports is the squared difference, so it comes in units of  *)
(* 1/4 and One (= 4) stands for the literal 1.0 of the code.  A score the  *)
(* code computes by division is kept exact as a pair <<num, den>>.         *)
(***************************************************************************)
EXTENDS Integers, Sequences, FiniteSets, TLC

VARIABLES
  inst,    \* handle -> the in-memory object (self.vector_store / self.store)
  disk,    \* the index directory: index.faiss and index.pkl
  chroma,  \* the Chroma collection persisted in the same directory
  store_type,  \* VECTOR_STORE_TYPE of the deployment, read by create_vector_store
  last,    \* the most recent call and what it returned
  minted,  \* the conversation ids uuid4 has handed to process_question
  blobs,   \* the document store: the files process_document has written
  temps,   \* the temporary files process_document has left on disk
  text_content,  \* the text an extraction has gathered so far, piece by piece
  loop     \* the event loop: the coroutine that holds it, and every request's coroutine

vars == <<inst, disk, chroma, store_type, last, minted, blobs, temps, text_content, loop>>

\* What the vector index classes never touch.
svc == <<minted, blobs, temps, text_content, loop>>

----------------------------------------------------------------------------
(* Bounds and input sets *)

MaxEntries == 3      \* entries an index may hold
MaxK == 2            \* largest k / top_k asked for

Inst == {"a"}
Texts == {"t1", "t2"}
Batches == {<<>>, <<"t1">>, <<"t2">>, <<"t1", "t2">>}
Queries == {"q1", " "}
Ks == 1..MaxK
Positions == {1, 2}  \* the entries a delete names

One == 4

\* The dimension of the vectors OpenAIEmbeddings() returns, and that of an
\* index written under another embedding model.
EmbeddingDim == 1536
StaleDims == {768}

\* What the environment does to a call: the embedding service or the write
\* to the index directory may fail.
Env == {"ok", "embed_fails", "save_fails"}

Min(a, b) == IF a <= b THEN a ELSE b

----------------------------------------------------------------------------
(* The embedding provider and the documents *)

dummy_text == "CareSync AI initialization document. This is a placeholder."

\* OpenAIEmbeddings: text -> vector.  Deterministic; the point of each text.
Embed(t) ==
  CASE t = "q1" -> 0
    [] t = dummy_text -> 1
    [] t = "t1" -> 2
    [] t = "t2" -> 3
    [] OTHER -> 0

\* str.strip() == ""
IsBlank(s) == s \in {"", " "}

\* A stored entry: page_content, metadata["source"] and its vector.
Entry(content, source) == [content |-> content, source |-> source, vec |-> Embed(content)]

Sentinel == Entry(dummy_text, "initialization")

UserMeta == "upload"

----------------------------------------------------------------------------
(* The on-disk format: save_local writes the vectors to index.faiss and    *)
(* the documents to index.pkl; load_local reads both back.                 *)

NoFaiss == [exists |-> FALSE, dim |-> 0, vecs |-> <<>>]
NoPkl == [exists |-> FALSE, docs |-> <<>>]
NoDisk == [faiss |-> NoFaiss, pkl |-> NoPkl]

Doc(e) == [content |-> e.content, source |-> e.source]

\* save_local called before the append: the last entry is not written.
SaveLocalStale(dim, entries) ==
  [faiss |-> [exists |-> TRUE, dim |-> dim,
              vecs |-> [j \in 1..(Len(entries) - 1) |-> entries[j].vec]],
   pkl |-> [exists |-> TRUE,
            docs |-> [j \in 1..(Len(entries) - 1) |-> Doc(entries[j])]]]

SaveLocal(dim, entries) ==
  [faiss |-> [exists |-> TRUE, dim |-> dim,
              vecs |-> [j \in 1..Len(entries) |-> entries[j].vec]],
   pkl |-> [exists |-> TRUE,
            docs |-> [j \in 1..Len(entries) |-> Doc(entries[j])]]]

\* The documents paired with the vectors one position off: the first entry
\* is lost on every load.
LoadLocalShifted(d) ==
  [dim |-> d.faiss.dim,
   entries |-> [j \in 1..(Min(Len(d.faiss.vecs), Len(d.pkl.docs)) - 1) |->
                  [content |-> d.pkl.docs[j + 1].content,
                   source |-> d.pkl.docs[j + 1].source,
                   vec |-> d.faiss.vecs[j + 1]]]]

\* load_local raises unless both files are there.
CanLoad(d) == d.faiss.exists /\ d.pkl.exists

LoadLocal(d) ==
  [dim |-> d.faiss.dim,
   entries |-> [j \in 1..Min(Len(d.faiss.vecs), Len(d.pkl.docs)) |->
                  [content |-> d.pkl.docs[j].content,
                   source |-> d.pkl.docs[j].source,
                   vec |-> d.faiss.vecs[j]]]]

NoChroma == [exists |-> FALSE, dim |-> 0, entries |-> <<>>]

----------------------------------------------------------------------------
(* Nearest-neighbour search and the score conversion *)

Dist(q, e) == (q - e.vec) * (q - e.vec)

Closer(es, q, j, i) ==
  \/ Dist(q, es[j]) < Dist(q, es[i])
  \/ (Dist(q, es[j]) = Dist(q, es[i]) /\ j < i)

Rank(es, q, i) == Cardinality({j \in 1..Len(es) : Closer(es, q, j, i)}) + 1

\* The slots FAISS leaves unfilled when k exceeds the index are reported as
\* if they were documents.
SimilaritySearchPadded(es, q, k) ==
  [r \in 1..k |->
     IF r <= Len(es)
     THEN LET i == CHOOSE i \in 1..Len(es) : Rank(es, q, i) = r
          IN  [doc |-> es[i], score |-> Dist(q, es[i])]
     ELSE [doc |-> [content |-> "", source |-> "", vec |-> 0], score |-> 0]]

\* store.similarity_search_with_score(query, k): the k nearest, nearest
\* first, fewer when the index holds fewer.
SimilaritySearchWithScore(es, q, k) ==
  [r \in 1..Min(k, Len(es)) |->
     LET i == CHOOSE i \in 1..Len(es) : Rank(es, q, i) = r
     IN  [doc |-> es[i], score |-> Dist(q, es[i])]]

\* float(1.0 - score) if score <= 1.0 else float((1.0 / score) if score > 0 else 0)
RelevanceScore(score) ==
  IF score <= One THEN <<One - score, One>>
  ELSE IF score > 0 THEN <<One, score>>
  ELSE <<0, 1>>

\* float(score)
RawScore(score) == <<score, One>>

RatLE(x, y) == x[1] * y[2] <= y[1] * x[2]

----------------------------------------------------------------------------------------------------------------------------------------------
(* Handles *)

Down == [up |-> FALSE, kind |-> "none", dim |-> 0, entries |-> <<>>, failed |-> FALSE]

Handle(kind, dim, entries) ==
  [up |-> TRUE, kind |-> kind, dim |-> dim, entries |-> entries, failed |-> FALSE]

\* The index takes vectors of its own dimension only.
Compatible(h) == h.dim = EmbeddingDim

\* An Optional value is <<>> for None and <<v>> for the value v.
NoAnswer == [mode |-> "none", question |-> "", context |-> <<>>]

\* No call of generate_response, and no envelope returned.
NoGen == [called |-> FALSE, mode |-> "none", context |-> <<>>,
          conversation_id |-> <<>>, llm |-> "ok", invocations |-> 0,
          ret |-> "none", answer |-> NoAnswer, confidence |-> 0]

NoEnvelope == [answer |-> NoAnswer, sources |-> <<>>, confidence |-> 0,
               conversation_id |-> "", has_context |-> FALSE]

\* ChatResponse of routes/chat.py: conversation_id and sources are Optional.
NoResponse == [answer |-> NoAnswer, confidence |-> 0,
               conversation_id |-> <<>>, sources |-> <<>>]

NoCall == [op |-> "none", h |-> "none", kind |-> "none", arg |-> "", docs |-> <<>>,
           k |-> 0, env |-> "ok", ret |-> "none", n |-> 0, found |-> FALSE, again |-> FALSE,
           saved |-> FALSE, raw |-> <<>>, out |-> <<>>, ids |-> {},
           cid |-> <<>>, id |-> "", llm |-> "ok", error |-> "",
           ext |-> "", text |-> <<>>, chunks |-> <<>>, gen |-> NoGen, envelope |-> NoEnvelope,
           response |-> NoResponse, followup |-> FALSE, during |-> FALSE]

\* The requests that may be in flight at once, and the coroutine of each:
\* the method it runs, the statement it has reached (pc), its arguments, how
\* many of its documents it has appended, and, for a search, whether it
\* arrived while an insert had appended part of its documents.
Requests == {"r1", "r2"}

NoTask == [op |-> "none", pc |-> "idle", h |-> "none", arg |-> "", docs |-> <<>>,
           k |-> 0, done |-> 0, during |-> FALSE]

NoLoop == [running |-> "none", tasks |-> [r \in Requests |-> NoTask]]

Call(op, i, kind) == [NoCall EXCEPT !.op = op, !.h = i, !.kind = kind]

\* The constructor runs again for the class whose process just ended, and
\* every insert of that process had reported success.
Again(h, kind) == h.kind = kind /\ ~h.failed

----------------------------------------------------------------------------
(* Search, as each class answers it *)

\* VectorStoreService.search_similar: blank query -> []; any exception -> [];
\* the initialization document is skipped; the score is the raw distance.
SearchSimilarResult(h, q, k, env) ==
  IF IsBlank(q) THEN [ret |-> "list", raw |-> <<>>, out |-> <<>>]
  ELSE IF env = "embed_fails" \/ ~Compatible(h)
  THEN [ret |-> "list", raw |-> <<>>, out |-> <<>>]
  ELSE LET raw == SimilaritySearchWithScore(h.entries, Embed(q), k)
           kept == SelectSeq(raw, LAMBDA x : x.doc.source # "initialization")
       IN  [ret |-> "list", raw |-> raw,
            out |-> [r \in 1..Len(kept) |->
                       [content |-> kept[r].doc.content,
                        source |-> kept[r].doc.source,
                        score |-> RawScore(kept[r].score)]]]

\* FAISSVectorStore.search / ChromaVectorStore.search: every result of the
\* backend is formatted, with the converted relevance_score; an exception
\* of the backend propagates.
SearchResult(h, q, k, env) ==
  IF env # "ok" \/ ~Compatible(h)
  THEN [ret |-> "raised", raw |-> <<>>, out |-> <<>>]
  ELSE LET raw == SimilaritySearchWithScore(h.entries, Embed(q), k)
       IN  [ret |-> "list", raw |-> raw,
            out |-> [r \in 1..Len(raw) |->
                       [content |-> raw[r].doc.content,
                        source |-> raw[r].doc.source,
                        score |-> RelevanceScore(raw[r].score)]]]

----------------------------------------------------------------------------
(* Initial state: nothing constructed.  The index directory is empty, or   *)
(* holds the index an earlier deployment wrote under another embedding     *)
(* model.                                                                  *)

OldIndexes == {SaveLocal(d, <<Sentinel, Entry("t1", UserMeta)>>) : d \in StaleDims}

Init ==
  /\ inst = [i \in Inst |-> Down]
  /\ disk \in {NoDisk} \cup OldIndexes
  /\ chroma = NoChroma
  /\ store_type \in {"faiss", "chroma"}
  /\ last = NoCall
  /\ minted = {} /\ blobs = {} /\ temps = 0 /\ text_content = <<>>
  /\ loop = NoLoop

----------------------------------------------------------------------------
(* VectorStoreService() : __init__ -> _initialize_vector_store *)

InitService(i) ==
  /\ ~inst[i].up
  /\ IF disk.faiss.exists /\ CanLoad(disk)
     THEN LET ix == LoadLocal(disk)
          IN  /\ inst' = [inst EXCEPT ![i] = Handle("vss", ix.dim, ix.entries)]
              /\ disk' = disk
              /\ last' = [Call("init", i, "vss") EXCEPT
                            !.ret = "ok", !.found = TRUE, !.again = Again(inst[i], "vss")]
     ELSE \E env \in Env :
            IF env = "ok"
            THEN /\ inst' = [inst EXCEPT ![i] = Handle("vss", EmbeddingDim, <<Sentinel>>)]
                 /\ disk' = SaveLocal(EmbeddingDim, <<Sentinel>>)
                 /\ last' = [Call("init", i, "vss") EXCEPT !.ret = "ok", !.saved = TRUE]
            ELSE /\ inst' = inst
                 /\ disk' = disk
                 /\ last' = [Call("init", i, "vss") EXCEPT !.ret = "raised", !.env = env]
  /\ UNCHANGED <<chroma, store_type, svc>>

(* FAISSVectorStore(store_path, embeddings) : __init__ -> _initialize_store.
   FAISS.from_documents(documents=[]) either builds an empty store or raises,
   depending on the library. *)
InitFaissStore(i) ==
  /\ store_type = "faiss"
  /\ ~inst[i].up
  /\ IF CanLoad(disk)
     THEN LET ix == LoadLocal(disk)
          IN  /\ inst' = [inst EXCEPT ![i] = Handle("faiss", ix.dim, ix.entries)]
              /\ last' = [Call("init", i, "faiss") EXCEPT
                            !.ret = "ok", !.found = TRUE, !.again = Again(inst[i], "faiss")]
     ELSE \E emptyOk \in BOOLEAN :
            IF emptyOk
            THEN /\ inst' = [inst EXCEPT ![i] = Handle("faiss", EmbeddingDim, <<>>)]
                 /\ last' = [Call("init", i, "faiss") EXCEPT
                               !.ret = "ok", !.again = Again(inst[i], "faiss")]
            ELSE /\ inst' = inst
                 /\ last' = [Call("init", i, "faiss") EXCEPT !.ret = "raised"]
  /\ UNCHANGED <<disk, chroma, store_type, svc>>

(* ChromaVectorStore(store_path, embeddings) : Chroma(persist_directory=...) *)
InitChromaStore(i) ==
  /\ store_type = "chroma"
  /\ ~inst[i].up
  /\ inst' = [inst EXCEPT ![i] =
                IF chroma.exists THEN Handle("chroma", chroma.dim, chroma.entries)
                ELSE Handle("chroma", EmbeddingDim, <<>>)]
  /\ last' = [Call("init", i, "chroma") EXCEPT
                !.ret = "ok", !.found = chroma.exists, !.again = Again(inst[i], "chroma")]
  /\ UNCHANGED <<disk, chroma, store_type, svc>>

(* VectorStoreService.add_document(content, metadata) *)
AddDocument(i) ==
  /\ inst[i].up /\ inst[i].kind = "vss"
  /\ Len(inst[i].entries) < MaxEntries
  /\ \E content \in Texts \cup {" "}, env \in Env :
       LET h == inst[i]
           c == [Call("add_document", i, "vss") EXCEPT !.arg = content, !.env = env]
           added == Append(h.entries, Entry(content, UserMeta))
       IN  IF IsBlank(content) \/ env = "embed_fails" \/ ~Compatible(h)
           THEN \* return False before anything is appended
                /\ inst' = [inst EXCEPT ![i].failed = TRUE]
                /\ disk' = disk
                /\ last' = [c EXCEPT !.ret = "False"]
           ELSE IF env = "ok"
           THEN /\ inst' = [inst EXCEPT ![i].entries = added]
                /\ disk' = SaveLocal(h.dim, added)
                /\ last' = [c EXCEPT !.ret = "True", !.saved = TRUE]
           ELSE \* add_texts done, save_local raised: caught, return False
                /\ inst' = [inst EXCEPT ![i].entries = added, ![i].failed = TRUE]
                /\ disk' = disk
                /\ last' = [c EXCEPT !.ret = "False"]
  /\ UNCHANGED <<chroma, store_type, svc>>

\* The guard left out.
NeverSkips(docs) == FALSE

\* "if not documents"
NotDocuments(docs) == docs = <<>>

\* What add_documents leaves on the medium of its backend:
\* store.save_local(store_path) or store.persist().
Persist(kind, dim, entries) ==
  IF kind = "faiss"
  THEN [disk |-> SaveLocal(dim, entries), chroma |-> chroma]
  ELSE [disk |-> disk,
        chroma |-> [exists |-> TRUE, dim |-> dim, entries |-> entries]]

\* add_documents(documents) of the object inst[i]: what it returns and what
\* it leaves in memory and on the medium.  "if not documents: return 0";
\* store.add_documents embeds and appends; save_local / persist writes.
AddDocumentsResult(i, docs, env) ==
  LET h == inst[i]
      added == h.entries \o [j \in 1..Len(docs) |-> Entry(docs[j], UserMeta)]
      p == Persist(h.kind, h.dim, added)
      same == [inst |-> inst, disk |-> disk, chroma |-> chroma,
               ret |-> "raised", n |-> 0, saved |-> FALSE]
  IN  IF NotDocuments(docs)
      THEN [same EXCEPT !.ret = "count"]
      ELSE IF env = "embed_fails" \/ ~Compatible(h)
      THEN [same EXCEPT !.inst = [inst EXCEPT ![i].failed = TRUE]]
      ELSE IF env = "ok"
      THEN [inst |-> [inst EXCEPT ![i].entries = added],
            disk |-> p.disk, chroma |-> p.chroma,
            ret |-> "count", n |-> Len(docs), saved |-> TRUE]
      ELSE [same EXCEPT !.inst = [inst EXCEPT ![i].entries = added, ![i].failed = TRUE]]

(* FAISSVectorStore.add_documents / ChromaVectorStore.add_documents *)
AddDocuments(i) ==
  /\ inst[i].up /\ inst[i].kind \in {"faiss", "chroma"}
  /\ \E docs \in Batches, env \in Env :
       LET r == AddDocumentsResult(i, docs, env)
       IN  /\ Len(inst[i].entries) + Len(docs) <= MaxEntries
           /\ inst' = r.inst /\ disk' = r.disk /\ chroma' = r.chroma
           /\ last' = [Call("add_documents", i, inst[i].kind) EXCEPT
                         !.docs = docs, !.env = env,
                         !.ret = r.ret, !.n = r.n, !.saved = r.saved]
  /\ UNCHANGED <<store_type, svc>>

(* VectorStoreService.search_similar(query, k) *)
SearchSimilar(i) ==
  /\ inst[i].up /\ inst[i].kind = "vss"
  /\ \E q \in Queries, k \in Ks, env \in {"ok", "embed_fails"} :
       LET r == SearchSimilarResult(inst[i], q, k, env)
       IN  last' = [Call("search_similar", i, "vss") EXCEPT
                      !.arg = q, !.k = k, !.env = env, !.ret = r.ret, !.raw = r.raw, !.out = r.out]
  /\ UNCHANGED <<inst, disk, chroma, store_type, svc>>

\* What may happen to a search of a store: the embedding of the query may
\* fail; a Chroma collection asked for more results than it holds answers
\* with fewer or raises, depending on the chromadb release.
SearchEnv(h, k) ==
  {"ok", "embed_fails"} \cup
    (IF h.kind = "chroma" /\ k > Len(h.entries) THEN {"not_enough_elements"} ELSE {})

(* FAISSVectorStore.search / ChromaVectorStore.search (query, top_k) *)
Search(i) ==
  /\ inst[i].up /\ inst[i].kind \in {"faiss", "chroma"}
  /\ \E q \in Queries, k \in Ks : \E env \in SearchEnv(inst[i], k) :
       LET r == SearchResult(inst[i], q, k, env)
       IN  last' = [Call("search", i, inst[i].kind) EXCEPT
                      !.arg = q, !.k = k, !.env = env, !.ret = r.ret, !.raw = r.raw, !.out = r.out]
  /\ UNCHANGED <<inst, disk, chroma, store_type, svc>>

\* The entries left when those at the positions ids are taken out.
Without(es, ids) ==
  LET keep == {j \in 1..Len(es) : j \notin ids}
      nth(r) == CHOOSE j \in keep : Cardinality({m \in keep : m < j}) = r - 1
  IN  [r \in 1..Cardinality(keep) |-> es[nth(r)]]

\* What may happen to a delete: FAISSVectorStore.delete calls nothing that
\* could fail; the delete or the persist of a Chroma collection may.
DeleteEnv(h) ==
  IF h.kind = "faiss" THEN {"ok"} ELSE {"ok", "delete_fails", "save_fails"}

(* FAISSVectorStore.delete / ChromaVectorStore.delete (document_ids).  An
   entry is identified by its position.  FAISS: "return False" and nothing
   else.  Chroma: store.delete, store.persist, True; any exception: False. *)
Delete(i) ==
  /\ inst[i].up /\ inst[i].kind \in {"faiss", "chroma"}
  /\ \E j \in Positions, env \in DeleteEnv(inst[i]) :
       LET h == inst[i]
           c == [Call("delete", i, h.kind) EXCEPT !.ids = {j}, !.env = env]
           left == Without(h.entries, {j})
       IN  IF h.kind = "faiss" \/ env = "delete_fails"
           THEN /\ inst' = inst
                /\ chroma' = chroma
                /\ last' = [c EXCEPT !.ret = "False"]
           ELSE IF env = "ok"
           THEN /\ inst' = [inst EXCEPT ![i].entries = left]
                /\ chroma' = [exists |-> TRUE, dim |-> h.dim, entries |-> left]
                /\ last' = [c EXCEPT !.ret = "True", !.saved = TRUE]
           ELSE /\ inst' = [inst EXCEPT ![i].entries = left, ![i].failed = TRUE]
                /\ chroma' = chroma
                /\ last' = [c EXCEPT !.ret = "False"]
  /\ UNCHANGED <<disk, store_type, svc>>

(* The process ends.  With up = FALSE the record is what the object held
   when it ended; no operation reads its index, and the next constructor
   replaces it. *)
Restart(i) ==
  /\ inst[i].up
  /\ inst' = [inst EXCEPT ![i].up = FALSE]
  /\ last' = Call("restart", i, inst[i].kind)
  /\ UNCHANGED <<disk, chroma, store_type, svc>>

Step(i) ==
  \/ InitService(i)
  \/ InitFaissStore(i)
  \/ InitChromaStore(i)
  \/ AddDocument(i)
  \/ AddDocuments(i)
  \/ SearchSimilar(i)
  \/ Search(i)
  \/ Restart(i)

\* One process at a time owns the index directory.
Next == \E i \in Inst : Step(i)

Spec == Init /\ [][Next]_vars

(* The stores of base.py under inserts and deletes. *)
StepDelete(i) ==
  \/ InitFaissStore(i)
  \/ InitChromaStore(i)
  \/ AddDocuments(i)
  \/ Delete(i)
  \/ Restart(i)

NextDelete == \E i \in Inst : StepDelete(i)

SpecDelete == Init /\ [][NextDelete]_vars

----------------------------------------------------------------------------
(* get_vector_store_service(): every call returns a new VectorStoreService,
   each with its own copy of the index in memory, all on the same index
   directory (ChatService.__init__ makes one such call). *)

Services == {"a", "b"}

NextShared ==
  \/ \E i \in Services : InitService(i)
  \/ \E i \in Services : AddDocument(i)

InitShared ==
  /\ inst = [i \in Services |-> Down]
  /\ disk = NoDisk
  /\ chroma = NoChroma
  /\ store_type = "faiss"
  /\ last = NoCall
  /\ minted = {} /\ blobs = {} /\ temps = 0 /\ text_content = <<>>
  /\ loop = NoLoop

SpecShared == InitShared /\ [][NextShared]_vars

----------------------------------------------------------------------------
(* Requests in flight.  The server is one process with one event loop       *)
(* (uvicorn.run without workers); every request is a coroutine on it.  A   *)
(* coroutine, once resumed, runs until it awaits or returns.  add_document, *)
(* add_documents, search_similar and search are "async def" with no await   *)
(* in their bodies.  Here each runs statement by statement: the call and    *)
(* the embedding, the append of each document, the write of index.faiss,    *)
(* the write of index.pkl.                                                  *)

Inserts == {"add_document", "add_documents"}
Searches == {"search_similar", "search"}

\* Threads instead of coroutines: any request may run at any time.
CanRunPreempted(r) == TRUE

\* The event loop resumes a coroutine only when no other one holds it.
CanRun(r) == loop.running \in {"none", r}

\* An await after every appended document.
AwaitsInAppend(op, pc) == pc = "appending"

\* Whether the coroutine gives the loop back before the statement at pc:
\* the bodies of the four methods hold no await.
AwaitsAt(op, pc) == FALSE

\* The coroutine of r goes on to the statement at pc.
Resume(r, pc) ==
  [loop EXCEPT !.tasks[r].pc = pc,
               !.running = IF AwaitsAt(loop.tasks[r].op, pc) THEN "none" ELSE r]

\* The coroutine of r returns or raises.
Return(r) == [loop EXCEPT !.tasks[r] = NoTask, !.running = "none"]

\* The call record of the request r when it ends.
Ended(r) ==
  LET t == loop.tasks[r]
  IN  [Call(t.op, t.h, inst[t.h].kind) EXCEPT
         !.arg = t.arg, !.docs = t.docs, !.k = t.k, !.during = t.during]

\* What failure of an insert looks like to the caller.
Failure(op) == IF op = "add_document" THEN "False" ELSE "raised"

\* The documents the inserts in flight have yet to append.
PendingDocs ==
  LET n(r) == IF loop.tasks[r].op \in Inserts
              THEN Len(loop.tasks[r].docs) - loop.tasks[r].done ELSE 0
      Sum[S \in SUBSET Requests] ==
        IF S = {} THEN 0
        ELSE LET x == CHOOSE x \in S : TRUE IN n(x) + Sum[S \ {x}]
  IN  Sum[Requests]

\* Whether the insert of another request has appended some of its documents
\* and not yet the rest.
InFlight(r) ==
  \E u \in Requests \ {r} :
    /\ loop.tasks[u].pc = "appending"
    /\ 0 < loop.tasks[u].done /\ loop.tasks[u].done < Len(loop.tasks[u].docs)

(* A request arrives: its coroutine is created, to be run by the loop. *)
Arrive(r) ==
  /\ loop.tasks[r].pc = "idle"
  /\ \E i \in Inst :
       /\ inst[i].up /\ inst[i].kind \in {"vss", "faiss"}
       /\ \/ \E docs \in (IF inst[i].kind = "vss"
                           THEN {<<c>> : c \in Texts \cup {" "}} ELSE Batches) :
               /\ Len(inst[i].entries) + PendingDocs + Len(docs) <= MaxEntries
               /\ loop' = [loop EXCEPT !.tasks[r] =
                             [NoTask EXCEPT
                                !.op = IF inst[i].kind = "vss" THEN "add_document"
                                       ELSE "add_documents",
                                !.pc = "called", !.h = i, !.docs = docs,
                                !.arg = IF inst[i].kind = "vss" THEN docs[1] ELSE ""]]
          \/ \E k \in Ks :
               loop' = [loop EXCEPT !.tasks[r] =
                          [NoTask EXCEPT
                             !.op = IF inst[i].kind = "vss" THEN "search_similar"
                                    ELSE "search",
                             !.pc = "called", !.h = i, !.arg = "q1", !.k = k,
                             !.during = InFlight(r)]]
  /\ UNCHANGED <<inst, disk, chroma, store_type, last, minted, blobs, temps, text_content>>

(* An insert up to the append: the guard on its argument, then the
   embedding of the texts (add_texts embeds before it appends). *)
Enter(r) ==
  LET t == loop.tasks[r]
  IN  /\ t.pc = "called" /\ t.op \in Inserts /\ CanRun(r)
      /\ IF t.op = "add_document" /\ IsBlank(t.arg)
         THEN /\ inst' = [inst EXCEPT ![t.h].failed = TRUE]
              /\ last' = [Ended(r) EXCEPT !.ret = "False"]
              /\ loop' = Return(r)
         ELSE IF t.op = "add_documents" /\ NotDocuments(t.docs)
         THEN /\ inst' = inst
              /\ last' = [Ended(r) EXCEPT !.ret = "count"]
              /\ loop' = Return(r)
         ELSE \E env \in {"ok", "embed_fails"} :
                IF env = "embed_fails" \/ ~Compatible(inst[t.h])
                THEN /\ inst' = [inst EXCEPT ![t.h].failed = TRUE]
                     /\ last' = [Ended(r) EXCEPT !.env = env, !.ret = Failure(t.op)]
                     /\ loop' = Return(r)
                ELSE /\ inst' = inst
                     /\ last' = last
                     /\ loop' = Resume(r, "appending")
      /\ UNCHANGED <<disk, chroma, store_type, minted, blobs, temps, text_content>>

(* The next document of the insert goes into the index in memory. *)
AppendNext(r) ==
  LET t == loop.tasks[r]
  IN  /\ t.pc = "appending" /\ CanRun(r)
      /\ inst' = [inst EXCEPT ![t.h].entries =
                    Append(@, Entry(t.docs[t.done + 1], UserMeta))]
      /\ loop' = [Resume(r, IF t.done + 1 = Len(t.docs) THEN "write_faiss"
                            ELSE "appending")
                    EXCEPT !.tasks[r].done = t.done + 1]
      /\ UNCHANGED <<disk, chroma, store_type, last, minted, blobs, temps, text_content>>

(* save_local, first file: faiss.write_index(index, "index.faiss") *)
WriteFaiss(r) ==
  LET t == loop.tasks[r]
      h == inst[t.h]
  IN  /\ t.pc = "write_faiss" /\ CanRun(r)
      /\ \E env \in {"ok", "save_fails"} :
           IF env = "ok"
           THEN /\ disk' = [disk EXCEPT !.faiss = SaveLocal(h.dim, h.entries).faiss]
                /\ inst' = inst
                /\ last' = last
                /\ loop' = Resume(r, "write_pkl")
           ELSE /\ disk' = disk
                /\ inst' = [inst EXCEPT ![t.h].failed = TRUE]
                /\ last' = [Ended(r) EXCEPT !.env = env, !.ret = Failure(t.op)]
                /\ loop' = Return(r)
      /\ UNCHANGED <<chroma, store_type, minted, blobs, temps, text_content>>

(* save_local, second file: pickle.dump((docstore, index_to_docstore_id))
   into "index.pkl"; then the insert returns. *)
WritePkl(r) ==
  LET t == loop.tasks[r]
      h == inst[t.h]
  IN  /\ t.pc = "write_pkl" /\ CanRun(r)
      /\ \E env \in {"ok", "save_fails"} :
           IF env = "ok"
           THEN /\ disk' = [disk EXCEPT !.pkl = SaveLocal(h.dim, h.entries).pkl]
                /\ inst' = inst
                /\ last' = [Ended(r) EXCEPT
                              !.ret = IF t.op = "add_document" THEN "True" ELSE "count",
                              !.n = IF t.op = "add_document" THEN 0 ELSE Len(t.docs),
                              !.saved = TRUE]
           ELSE /\ disk' = disk
                /\ inst' = [inst EXCEPT ![t.h].failed = TRUE]
                /\ last' = [Ended(r) EXCEPT !.env = env, !.ret = Failure(t.op)]
      /\ loop' = Return(r)
      /\ UNCHANGED <<chroma, store_type, minted, blobs, temps, text_content>>

(* A search, from its call to its return. *)
RunSearch(r) ==
  LET t == loop.tasks[r]
  IN  /\ t.pc = "called" /\ t.op \in Searches /\ CanRun(r)
      /\ \E env \in {"ok", "embed_fails"} :
           LET s == IF t.op = "search_similar"
                    THEN SearchSimilarResult(inst[t.h], t.arg, t.k, env)
                    ELSE SearchResult(inst[t.h], t.arg, t.k, env)
           IN  last' = [Ended(r) EXCEPT
                          !.env = env, !.ret = s.ret, !.raw = s.raw, !.out = s.out]
      /\ loop' = Return(r)
      /\ UNCHANGED <<inst, disk, chroma, store_type, minted, blobs, temps, text_content>>

NextLoop ==
  \/ \E i \in Inst : InitService(i)
  \/ \E i \in Inst : InitFaissStore(i)
  \/ \E r \in Requests : Arrive(r)
  \/ \E r \in Requests : Enter(r)
  \/ \E r \in Requests : AppendNext(r)
  \/ \E r \in Requests : WriteFaiss(r)
  \/ \E r \in Requests : WritePkl(r)
  \/ \E r \in Requests : RunSearch(r)

InitLoop ==
  /\ inst = [i \in Inst |-> Down]
  /\ disk = NoDisk
  /\ chroma = NoChroma
  /\ store_type = "faiss"
  /\ last = NoCall
  /\ minted = {} /\ blobs = {} /\ temps = 0 /\ text_content = <<>>
  /\ loop = NoLoop

SpecLoop == InitLoop /\ [][NextLoop]_vars

----------------------------------------------------------------------------
(* LLMService.generate_response and ChatService.process_question *)

Questions == {"q1", " "}
ConversationIds == {<<>>, <<"">>, <<"c1">>}   \* None, "" and an id of the client
UUIDs == {"u1", "u2"}                         \* what uuid4 may return
Llm == {"ok", "llm_fails"}                    \* what the model backend does
Contexts == {<<>>, <<[content |-> "t1", source |-> UserMeta, score |-> <<One, One>>]>>}

\* "confidence = 0.8 if context else 0.5", in tenths
WithContextConfidence == 8
WithoutContextConfidence == 5

\* top_k of the search process_question asks for
TopK == 3

\* A second invocation after a failed one: it fails as well.
AinvokeRetry(mode, question, context, llm) ==
  [invocations |-> IF llm = "ok" THEN 1 ELSE 2,
   ok |-> llm = "ok",
   answer |-> IF llm = "ok"
              THEN [mode |-> mode, question |-> question, context |-> context]
              ELSE NoAnswer]

\* answer = await chain.ainvoke(...): the chain is invoked once; what the
\* model answers is determined by the prompt it was given.
Ainvoke(mode, question, context, llm) ==
  [invocations |-> 1,
   ok |-> llm = "ok",
   answer |-> IF llm = "ok"
              THEN [mode |-> mode, question |-> question, context |-> context]
              ELSE NoAnswer]

\* generate_response(question, context, conversation_id).  "if context" is
\* false for None and for the empty list.  Any exception of the chain is
\* raised again as Exception("Error generating LLM response: ...").
GenerateResponseResult(question, context, conversation_id, llm) ==
  LET mode == IF context # <<>> THEN "with_context" ELSE "without_context"
      r == Ainvoke(mode, question, context, llm)
      g == [NoGen EXCEPT !.called = TRUE, !.mode = mode, !.context = context,
              !.conversation_id = conversation_id, !.llm = llm,
              !.invocations = r.invocations]
  IN  IF r.ok
      THEN [g EXCEPT !.ret = "answer", !.answer = r.answer,
              !.confidence = IF context # <<>> THEN WithContextConfidence
                             ELSE WithoutContextConfidence]
      ELSE [g EXCEPT !.ret = "raised"]

\* "if not conversation_id"
NotConversationId(cid) == cid = <<>> \/ cid = <<"">>

\* The classes that define the method search(query, top_k).
HasSearch(kind) == kind \in {"faiss", "chroma"}

\* A process_question that, when the call before it was made under the same
\* conversation id, hands that call's question to the generator as context.
ProcessQuestionReplay(h, question, id, env, llm) ==
  LET failed == [ret |-> "raised", out |-> <<>>, gen |-> NoGen, envelope |-> NoEnvelope]
      prior == <<[content |-> last.arg, source |-> UserMeta, score |-> <<One, One>>]>>
  IN  IF last.op = "process_question" /\ last.id = id
      THEN [failed EXCEPT !.gen = GenerateResponseResult(question, prior, <<id>>, llm)]
      ELSE failed

\* process_question from line 25 on, for the conversation id in effect.
\* self.vector_store_service is the object get_vector_store_service()
\* returned; the lookup of its attribute "search" raises AttributeError when
\* the class has none.  Every exception is raised again as
\* Exception("Error processing question: ...").
ProcessQuestionResult(h, question, id, env, llm) ==
  LET failed == [ret |-> "raised", out |-> <<>>, gen |-> NoGen, envelope |-> NoEnvelope]
  IN  IF ~HasSearch(h.kind) THEN failed
      ELSE LET s == SearchResult(h, question, TopK, env)
           IN  IF s.ret = "raised" THEN failed
               ELSE LET sources == s.out
                        g == GenerateResponseResult(question, sources, <<id>>, llm)
                    IN  IF g.ret = "raised" THEN [failed EXCEPT !.out = sources, !.gen = g]
                        ELSE [ret |-> "envelope", out |-> sources, gen |-> g,
                              envelope |->
                                [answer |-> g.answer,
                                 sources |-> IF sources # <<>> THEN <<sources>> ELSE <<>>,
                                 confidence |-> g.confidence,
                                 conversation_id |-> id,
                                 has_context |-> sources # <<>>]]

(* ChatService.process_question(question, conversation_id).  uuid4 is taken
   never to return an id it returned before. *)
ProcessQuestion(i) ==
  /\ inst[i].up /\ inst[i].kind = "vss"
  /\ \E question \in Questions, cid \in ConversationIds,
        env \in {"ok", "embed_fails"}, llm \in Llm :
       \E id \in (IF NotConversationId(cid) THEN UUIDs \ minted ELSE {cid[1]}) :
         LET r == ProcessQuestionResult(inst[i], question, id, env, llm)
         IN  /\ minted' = IF NotConversationId(cid) THEN minted \cup {id} ELSE minted
             /\ last' = [Call("process_question", i, inst[i].kind) EXCEPT
                           !.arg = question, !.cid = cid, !.id = id, !.env = env,
                           !.llm = llm, !.ret = r.ret, !.out = r.out,
                           !.gen = r.gen, !.envelope = r.envelope,
                           !.followup = (last.op = "process_question" /\ last.id = id),
                           !.error = IF r.ret = "raised"
                                     THEN "Error processing question" ELSE ""]
  /\ UNCHANGED <<inst, disk, chroma, store_type, blobs, temps, text_content, loop>>

(* LLMService.generate_response, called on its own (as routes/chat.py does) *)
GenerateResponse ==
  /\ \E question \in Questions, context \in Contexts,
        cid \in ConversationIds, llm \in Llm :
       LET g == GenerateResponseResult(question, context, cid, llm)
       IN  last' = [NoCall EXCEPT
                      !.op = "generate_response", !.arg = question, !.cid = cid,
                      !.llm = llm, !.ret = g.ret, !.gen = g,
                      !.error = IF g.ret = "raised"
                                THEN "Error generating LLM response" ELSE ""]
  /\ UNCHANGED <<inst, disk, chroma, store_type, svc>>

(* POST /chat: the handler awaits llm_service.generate_response(question=...,
   conversation_id=...) and builds the ChatResponse from the dict it returns,
   with result.get(...) for the two optional fields; any exception becomes
   HTTPException(500). *)
ChatRoute ==
  /\ \E question \in Questions, cid \in ConversationIds, llm \in Llm :
       LET result == GenerateResponseResult(question, <<>>, cid, llm)
       IN  last' = [NoCall EXCEPT
                      !.op = "chat", !.arg = question, !.cid = cid, !.llm = llm,
                      !.gen = result,
                      !.ret = IF result.ret = "raised" THEN "raised" ELSE "response",
                      !.error = IF result.ret = "raised"
                                THEN "Error processing chat request" ELSE "",
                      !.response = IF result.ret = "raised" THEN NoResponse
                                   ELSE [answer |-> result.answer,
                                         confidence |-> result.confidence,
                                         conversation_id |-> result.conversation_id,
                                         sources |-> <<>>]]
  /\ UNCHANGED <<inst, disk, chroma, store_type, svc>>

\* ChatService(llm_service) builds its VectorStoreService; documents reach
\* the index through add_document.
NextChat ==
  \/ \E i \in Inst : InitService(i)
  \/ \E i \in Inst : AddDocument(i)
  \/ \E i \in Inst : ProcessQuestion(i)
  \/ GenerateResponse
  \/ ChatRoute
  \/ \E i \in Inst : Restart(i)

InitChat ==
  /\ inst = [i \in Inst |-> Down]
  /\ disk = NoDisk
  /\ chroma = NoChroma
  /\ store_type = "faiss"
  /\ last = NoCall
  /\ minted = {} /\ blobs = {} /\ temps = 0 /\ text_content = <<>>
  /\ loop = NoLoop

SpecChat == InitChat /\ [][NextChat]_vars

----------------------------------------------------------------------------
(* DocumentService: _split_text and process_document *)

\* RecursiveCharacterTextSplitter(chunk_size=1000, chunk_overlap=200,
\* length_function=len)
ChunkSize == 1000
ChunkOverlap == 200

MaxText == 2500      \* characters an extraction gathers
MaxTemps == 2        \* temporary files left behind before the disk is cleaned

\* A text is the sequence of the pieces the splitter cuts it into at its
\* coarsest separator that occurs in the text (each piece carries the
\* separator in front of it, so pieces are merged with nothing in between):
\* paragraphs of 900 and 800 characters and a sentence of 100.  Every piece
\* is shorter than chunk_size, so none is split further.
Pieces == {[s |-> "t1", len |-> 900], [s |-> "t2", len |-> 800], [s |-> "s", len |-> 100]}

RECURSIVE TextLength(_)
TextLength(text) == IF text = <<>> THEN 0 ELSE Head(text).len + TextLength(Tail(text))

\* _merge_splits: "while total > chunk_overlap or (total + len > chunk_size
\* and total > 0)" the first piece of the current chunk is dropped.  cur is
\* the current chunk as the positions of its pieces.
RECURSIVE PopFront(_, _, _, _)
PopFront(text, cur, total, len) ==
  IF total > ChunkOverlap \/ (total + len > ChunkSize /\ total > 0)
  THEN PopFront(text, Tail(cur), total - text[Head(cur)].len, len)
  ELSE [cur |-> cur, total |-> total]

\* _merge_splits from piece j on: a piece that does not fit closes the
\* current chunk, which keeps its tail as the start of the next one.
RECURSIVE MergeSplits(_, _, _, _, _)
MergeSplits(text, j, cur, total, docs) ==
  IF j > Len(text)
  THEN IF cur # <<>> THEN Append(docs, cur) ELSE docs
  ELSE LET len == text[j].len
       IN  IF total + len > ChunkSize /\ cur # <<>>
           THEN LET p == PopFront(text, cur, total, len)
                IN  MergeSplits(text, j + 1, Append(p.cur, j), p.total + len,
                                Append(docs, cur))
           ELSE MergeSplits(text, j + 1, Append(cur, j), total + len, docs)

\* The chunks of a text, each as the positions of its pieces.
Chunks(text) == MergeSplits(text, 1, <<>>, 0, <<>>)

\* _join_docs: the text of a chunk
RECURSIVE JoinDocs(_, _)
JoinDocs(text, chunk) ==
  IF chunk = <<>> THEN ""
  ELSE text[Head(chunk)].s \o JoinDocs(text, Tail(chunk))

\* A chunk is made even of a text that has nothing in it.
SplitTextBlankChunk(text) ==
  IF text = <<>> THEN <<"">>
  ELSE [c \in 1..Len(Chunks(text)) |-> JoinDocs(text, Chunks(text)[c])]

\* _split_text: the page_content of the Document made of each chunk, in
\* order (chunk_id is the position, from 0).
SplitText(text) ==
  [c \in 1..Len(Chunks(text)) |-> JoinDocs(text, Chunks(text)[c])]

(* The extraction loops of _process_pdf / _process_docx: one more page or
   paragraph is added to text_content. *)
ExtractPiece ==
  /\ \E p \in Pieces :
       /\ TextLength(text_content) + p.len <= MaxText
       /\ text_content' = Append(text_content, p)
  /\ UNCHANGED <<inst, disk, chroma, store_type, last, minted, blobs, temps, loop>>

(* _split_text(text_content, ...) *)
SplitTextCall ==
  /\ last' = [NoCall EXCEPT !.op = "split_text", !.text = text_content,
                !.chunks = Chunks(text_content), !.docs = SplitText(text_content),
                !.ret = "list"]
  /\ UNCHANGED <<inst, disk, chroma, store_type, svc>>

NextSplit == ExtractPiece \/ SplitTextCall

\* text_content = "" (lines 86 and 107); no index is involved.
InitSplit ==
  /\ inst = [i \in Inst |-> Down]
  /\ disk = NoDisk
  /\ chroma = NoChroma
  /\ store_type = "faiss"
  /\ last = NoCall
  /\ minted = {} /\ blobs = {} /\ temps = 0 /\ text_content = <<>>
  /\ loop = NoLoop

SpecSplit == InitSplit /\ [][NextSplit]_vars

\* The files a client uploads: the extension of the name, and the text an
\* extraction finds in the file.
Extensions == {".pdf", ".docx", ".exe"}
DocTexts == {<<>>, <<[s |-> "t1", len |-> 900]>>,
             <<[s |-> "t1", len |-> 900], [s |-> "t2", len |-> 800]>>}
DocIds == {"d1", "d2"}       \* what uuid4 may return

\* What the environment does to a process_document: the file may be
\* unreadable as its format, the document store may refuse the write, and
\* the insert may fail as in Env.
DocEnv == {"ok", "extract_fails", "blob_fails", "embed_fails", "save_fails"}

\* Every extension is read as a DOCX file unless it is a PDF.
ExtractorOfAny(ext) ==
  CASE ext = ".pdf" -> "_process_pdf"
    [] OTHER -> "_process_docx"

\* "if file_extension == '.pdf' ... elif '.docx' ... else raise ValueError"
Extractor(ext) ==
  CASE ext = ".pdf" -> "_process_pdf"
    [] ext = ".docx" -> "_process_docx"
    [] OTHER -> "unsupported"

(* DocumentService(store).process_document(file).  The store is an object
   of base.py: add_documents(documents: List[Document]) is the method of
   VectorStoreBase.  uuid4 is taken never to return an id it returned
   before.  An exception inside the "with" block skips os.unlink, so the
   temporary file stays; the file is copied to the document store before
   add_documents runs. *)
ProcessDocument(i) ==
  /\ inst[i].up /\ inst[i].kind \in {"faiss", "chroma"}
  /\ temps < MaxTemps
  /\ \E ext \in Extensions, text \in DocTexts, env \in DocEnv :
     \E id \in DocIds \ {b.id : b \in blobs} :
       LET documents == SplitText(text)
           c == [Call("process_document", i, inst[i].kind) EXCEPT
                   !.ext = ext, !.text = text, !.env = env, !.id = id]
           r == AddDocumentsResult(i, documents,
                                   IF env \in Env THEN env ELSE "ok")
       IN  /\ Len(inst[i].entries) + Len(documents) <= MaxEntries
           /\ IF Extractor(ext) = "unsupported"
              THEN /\ temps' = temps + 1
                   /\ UNCHANGED <<inst, disk, chroma, blobs>>
                   /\ last' = [c EXCEPT !.ret = "raised",
                                 !.error = "Unsupported file type"]
              ELSE IF env = "extract_fails"
              THEN /\ temps' = temps + 1
                   /\ UNCHANGED <<inst, disk, chroma, blobs>>
                   /\ last' = [c EXCEPT !.ret = "raised",
                                 !.error = "Error processing " \o
                                   (IF ext = ".pdf" THEN "PDF" ELSE "DOCX")]
              ELSE IF env = "blob_fails"
              THEN /\ temps' = temps + 1
                   /\ UNCHANGED <<inst, disk, chroma, blobs>>
                   /\ last' = [c EXCEPT !.ret = "raised", !.docs = documents,
                                 !.error = "document store"]
              ELSE /\ temps' = temps
                   /\ blobs' = blobs \cup {[id |-> id, ext |-> ext]}
                   /\ inst' = r.inst /\ disk' = r.disk /\ chroma' = r.chroma
                   /\ last' = IF r.ret = "raised"
                              THEN [c EXCEPT !.ret = "raised", !.docs = documents,
                                      !.error = "add_documents"]
                              ELSE [c EXCEPT !.ret = "success", !.docs = documents,
                                      !.n = r.n, !.saved = r.saved]
  /\ UNCHANGED <<store_type, minted, text_content, loop>>

NextDoc ==
  \/ \E i \in Inst : InitFaissStore(i)
  \/ \E i \in Inst : InitChromaStore(i)
  \/ \E i \in Inst : ProcessDocument(i)
  \/ \E i \in Inst : Restart(i)

SpecDoc == Init /\ [][NextDoc]_vars

----------------------------------------------------------------------------
(* Properties *)

IsSearch == last.op \in {"search_similar", "search"}

\* The index a handle would load from the medium of its class.
Persisted(kind) ==
  IF kind = "chroma" THEN chroma.entries
  ELSE IF CanLoad(disk) THEN LoadLocal(disk).entries ELSE <<>>

IsSuffix(t, s) ==
  /\ Len(t) <= Len(s)
  /\ \A j \in 1..Len(t) : s[Len(s) - Len(t) + j] = t[j]

Zero == <<0, 1>>
Unit == <<1, 1>>

\* C1: no search ever returns the initialization entry (the entry whose
\* metadata source is "initialization").
C1_SentinelNeverReturned ==
  IsSearch => \A r \in 1..Len(last.out) : last.out[r].source # "initialization"

\* C2: when an insert reports success (add_document returns True, or
\* add_documents returns a count > 0), the persisted index ends with the
\* entries of that insert, and is the index the object holds in memory.
C2_SuccessIsPersisted ==
  /\ (last.op = "add_document" /\ last.ret = "True")
       => /\ IsSuffix(<<Entry(last.arg, UserMeta)>>, Persisted(last.kind))
          /\ Persisted(last.kind) = inst[last.h].entries
  /\ (last.op = "add_documents" /\ last.ret = "count" /\ last.n > 0)
       => /\ IsSuffix([j \in 1..Len(last.docs) |-> Entry(last.docs[j], UserMeta)],
                      Persisted(last.kind))
          /\ Persisted(last.kind) = inst[last.h].entries

C2_Witness ==
  /\ last.op = "add_documents" /\ last.ret = "count" /\ last.n = 2
  /\ Len(Persisted(last.kind)) = 3

\* C3: add_documents([]) returns 0, persists nothing, and leaves the
\* persisted index and the in-memory index as they were.
C3_EmptyInsertIsNoOp ==
  [][(last'.op = "add_documents" /\ last'.docs = <<>>)
       => /\ last'.ret = "count" /\ last'.n = 0
          /\ ~last'.saved
          /\ disk' = disk /\ chroma' = chroma /\ inst' = inst]_vars

\* An empty insert on an object whose memory is ahead of its persisted index.
C3_Witness ==
  /\ last.op = "add_documents" /\ last.docs = <<>> /\ last.ret = "count"
  /\ inst[last.h].entries # Persisted(last.kind)
  /\ inst[last.h].entries # <<>>

\* What a search of the object answers when the embedding service works.
Answer(h, q, k) ==
  IF h.kind = "vss" THEN SearchSimilarResult(h, q, k, "ok")
  ELSE SearchResult(h, q, k, "ok")

\* C4: when a process whose inserts all reported success ends and the same
\* class is initialized again at the same path, every search answers what
\* it answered before the restart: the same entries in the same order.
C4_RoundTrip ==
  [][\A i \in Inst :
       (~inst[i].up /\ inst'[i].up /\ Again(inst[i], inst'[i].kind))
         => \A q \in Queries, k \in Ks :
              Answer(inst'[i], q, k) = Answer(inst[i], q, k)]_vars

C4_Witness ==
  /\ last.op = "init" /\ last.again /\ last.found
  /\ inst[last.h].up
  /\ \E j \in 1..Len(inst[last.h].entries) : inst[last.h].entries[j].source = UserMeta
  /\ Compatible(inst[last.h])

\* C5: an initialize that finds a persisted index succeeds and holds that
\* index, the persisted one being still there; one that finds none (and
\* whose embedding and write succeed) holds only the sentinel entry, and
\* the persisted index is then that fresh index.
C5_InitializeLoadsOrCreates ==
  (last.op = "init" /\ last.kind \in {"vss", "faiss"})
    => IF last.found
       THEN /\ last.ret = "ok"
            /\ inst[last.h].entries = Persisted(last.kind)
       ELSE last.env = "ok"
              => /\ last.ret = "ok"
                 /\ inst[last.h].entries = <<Sentinel>>
                 /\ CanLoad(disk) /\ LoadLocal(disk).entries = <<Sentinel>>

\* C6: an initialize that finds a persisted index of another dimension
\* fails with DimensionMismatch and builds no object; the persisted index
\* stays.
C6_DimensionMismatchRejected ==
  (last.op = "init" /\ last.kind \in {"vss", "faiss"} /\ last.found
     /\ disk.faiss.dim # EmbeddingDim)
    => /\ last.ret = "DimensionMismatch"
       /\ ~inst[last.h].up
       /\ disk \in OldIndexes

\* C7: a search of VectorStoreService or FAISSVectorStore returns at most k
\* results, each one an entry of the index, and none fails because k
\* exceeds what the index holds (it fails only when the embedding of the
\* query does, or the index takes no vector of that dimension).
C7_AtMostKRealEntries ==
  (IsSearch /\ last.kind \in {"vss", "faiss"}) =>
    /\ Len(last.out) <= last.k
    /\ \A r \in 1..Len(last.out) :
         \E j \in 1..Len(inst[last.h].entries) :
           /\ inst[last.h].entries[j].content = last.out[r].content
           /\ inst[last.h].entries[j].source = last.out[r].source
    /\ (last.ret = "raised" => (last.env = "embed_fails" \/ ~Compatible(inst[last.h])))

C7_Witness ==
  /\ last.op = "search" /\ last.kind = "faiss" /\ last.ret = "list"
  /\ last.k > Len(inst[last.h].entries)
  /\ Len(last.out) >= 1

\* C8: the results of a search are in descending order of relevance score.
C8_SortedBestFirst ==
  IsSearch => \A r \in 1..(Len(last.out) - 1) :
                RatLE(last.out[r + 1].score, last.out[r].score)

\* C9: every score a search returns is a similarity in [0, 1].
C9_ScoreInUnitInterval ==
  IsSearch => \A r \in 1..Len(last.out) :
                RatLE(Zero, last.out[r].score) /\ RatLE(last.out[r].score, Unit)

\* C10: of two raw distances the backend reported, the smaller one converts
\* to a similarity at least as large.
C10_ConversionMonotonic ==
  last.op = "search" =>
    \A a, b \in 1..Len(last.raw) :
      last.raw[a].score < last.raw[b].score
        => RatLE(RelevanceScore(last.raw[b].score), RelevanceScore(last.raw[a].score))

\* The entries a search may return: all but the initialization entry.
Eligible(es) == SelectSeq(es, LAMBDA e : e.source # "initialization")

\* C11: a search (VectorStoreService.search_similar, FAISSVectorStore.search)
\* whose question is empty or whitespace-only, and a search of an index
\* that holds no eligible entry, returns the empty list and raises nothing
\* (the embedding service and the index working).
C11_BlankOrEmptyGivesEmpty ==
  (IsSearch /\ last.kind \in {"vss", "faiss"}
     /\ last.env = "ok" /\ Compatible(inst[last.h])
     /\ (IsBlank(last.arg) \/ Eligible(inst[last.h].entries) = <<>>))
    => last.ret = "list" /\ last.out = <<>>

\* The call reached the embedding service or the index backend, and that
\* one failed.
BackendFailed ==
  /\ \/ last.op \in {"search_similar", "search", "add_document"} /\ ~IsBlank(last.arg)
     \/ last.op = "add_documents" /\ last.docs # <<>>
  /\ last.env # "ok" \/ ~Compatible(inst[last.h])

\* C15: a search or an insert during which the embedding service or the
\* index backend fails raises an error to its caller; it does not return
\* a list, True, False or a count.
C15_FailuresSurface ==
  BackendFailed => last.ret = "raised"

\* C19: delete on the FAISS backend, which cannot delete, raises
\* UnsupportedOperation; the index in memory and the persisted index stay
\* as they were.
C19_DeleteUnsupportedRaises ==
  [][(last'.op = "delete" /\ last'.kind = "faiss")
       => /\ last'.ret = "UnsupportedOperation"
          /\ inst' = inst /\ disk' = disk]_vars

\* process_question was called with the embedding service, the index and
\* the model backend all working.
Asked ==
  /\ last.op = "process_question"
  /\ last.env = "ok" /\ last.llm = "ok" /\ Compatible(inst[last.h])

\* C12: a process_question called without a conversation_id works under an
\* id that no earlier call was given by uuid4; one called with a
\* conversation_id returns an envelope with exactly that id, and calls
\* generate_response with exactly that id.
C12_ConversationId ==
  [][(last'.op = "process_question" /\ last'.env = "ok" /\ last'.llm = "ok"
        /\ Compatible(inst'[last'.h]))
       => IF NotConversationId(last'.cid)
          THEN last'.id \notin minted /\ last'.id \in minted'
          ELSE /\ last'.ret = "envelope"
               /\ last'.envelope.conversation_id = last'.cid[1]
               /\ last'.gen.called
               /\ last'.gen.conversation_id = <<last'.cid[1]>>]_vars

\* C13: process_question calls generate_response with the retrieved
\* results as context exactly when there is at least one, and without
\* context otherwise; the envelope it returns has sources null exactly when
\* nothing was retrieved, has_context true exactly when sources is not
\* null, and the with-context confidence exactly when has_context is true.
C13_ModeFollowsRetrieval ==
  Asked =>
    /\ last.ret = "envelope"
    /\ last.gen.called
    /\ (last.gen.mode = "with_context") <=> (last.out # <<>>)
    /\ last.gen.context = last.out
    /\ (last.envelope.sources = <<>>) <=> (last.out = <<>>)
    /\ last.envelope.sources # <<>> => last.envelope.sources = <<last.out>>
    /\ last.envelope.has_context <=> (last.envelope.sources # <<>>)
    /\ last.envelope.confidence =
         IF last.envelope.has_context THEN WithContextConfidence
         ELSE WithoutContextConfidence

\* C14: on an index that holds only the initialization document, a
\* process_question with a non-empty question succeeds: nothing is
\* retrieved, generate_response is called without context, and the
\* envelope has sources null, has_context false and the without-context
\* confidence.
C14_SentinelOnlyUngrounded ==
  (Asked /\ ~IsBlank(last.arg) /\ inst[last.h].entries = <<Sentinel>>)
    => /\ last.ret = "envelope"
       /\ last.out = <<>>
       /\ last.gen.called /\ last.gen.mode = "without_context"
       /\ last.envelope.sources = <<>>
       /\ ~last.envelope.has_context
       /\ last.envelope.confidence = WithoutContextConfidence

\* C16: when the model backend fails, generate_response raises the error
\* "Error generating LLM response" and returns no answer, and it has
\* invoked the chain exactly once.
C16_GenerationFailsOnce ==
  (last.gen.called /\ last.gen.llm = "llm_fails")
    => /\ last.gen.ret = "raised"
       /\ last.ret = "raised"
       /\ last.op = "generate_response" => last.error = "Error generating LLM response"
       /\ last.gen.answer = NoAnswer
       /\ last.gen.invocations = 1

C16_Witness ==
  /\ last.op = "generate_response" /\ last.gen.llm = "llm_fails"
  /\ last.gen.mode = "with_context"
  /\ last.ret = "raised" /\ last.gen.invocations = 1

\* C17: process_document on a file whose extension is neither .pdf nor
\* .docx raises the error "Unsupported file type"; it reports no chunk,
\* and the index in memory and the persisted index stay as they were.
C17_UnsupportedFormatRejected ==
  [][(last'.op = "process_document" /\ last'.ext \notin {".pdf", ".docx"})
       => /\ last'.ret = "raised"
          /\ last'.error = "Unsupported file type"
          /\ last'.n = 0 /\ last'.docs = <<>> /\ ~last'.saved
          /\ inst' = inst /\ disk' = disk /\ chroma' = chroma]_vars

\* A .exe file that holds text, offered to a store that holds entries.
C17_Witness ==
  /\ last.op = "process_document" /\ last.ext = ".exe" /\ last.text # <<>>
  /\ last.ret = "raised"
  /\ inst[last.h].entries # <<>>

\* C18: when the extraction succeeds and finds no text (the document store
\* taking the file), process_document makes no chunk and returns success
\* with num_chunks = 0; the index in memory and the persisted index stay
\* as they were, whatever the embedding service or the index directory
\* would have done.
C18_NoTextIsSuccessZero ==
  [][(last'.op = "process_document" /\ last'.ext \in {".pdf", ".docx"}
        /\ last'.text = <<>> /\ last'.env \notin {"extract_fails", "blob_fails"})
       => /\ last'.docs = <<>>
          /\ last'.ret = "success" /\ last'.n = 0 /\ ~last'.saved
          /\ inst' = inst /\ disk' = disk /\ chroma' = chroma]_vars

C18_Witness ==
  /\ last.op = "process_document" /\ last.ext = ".pdf" /\ last.text = <<>>
  /\ last.env = "embed_fails"
  /\ last.ret = "success" /\ last.n = 0
  /\ inst[last.h].entries # <<>>

\* The characters of a chunk, and those two chunks have in common.
RECURSIVE ChunkLength(_, _)
ChunkLength(text, chunk) ==
  IF chunk = <<>> THEN 0
  ELSE text[Head(chunk)].len + ChunkLength(text, Tail(chunk))

Shared(text, a, b) ==
  ChunkLength(text, SelectSeq(a, LAMBDA j : \E m \in 1..Len(b) : b[m] = j))

\* C20: _split_text (chunk_size 1000, overlap 200) of a text of 2500
\* characters makes at least 2 chunks, each of at most 1000 characters,
\* and any two consecutive chunks share at least 190 characters.
C20_SplitOverlap ==
  (last.op = "split_text" /\ TextLength(last.text) = 2500)
    => /\ Len(last.chunks) >= 2
       /\ \A c \in 1..Len(last.chunks) : ChunkLength(last.text, last.chunks[c]) <= 1000
       /\ \A c \in 1..(Len(last.chunks) - 1) :
            Shared(last.text, last.chunks[c], last.chunks[c + 1]) >= 190

\* C26: search_similar(query, k) returns exactly min(k, n) results, n being
\* the number of entries of the index other than the initialization entry
\* (the query not blank, the embedding service and the index working).
C26_ExactlyMinKEligible ==
  (last.op = "search_similar" /\ ~IsBlank(last.arg)
     /\ last.env = "ok" /\ Compatible(inst[last.h]))
    => Len(last.out) = Min(last.k, Len(Eligible(inst[last.h].entries)))

\* C28: an add_document that returns False leaves the index in memory and
\* the persisted index holding exactly the entries they held before.
C28_FalseLeavesIndexAlone ==
  [][(last'.op = "add_document" /\ last'.ret = "False")
       => /\ inst'[last'.h].entries = inst[last'.h].entries
          /\ disk' = disk]_vars

\* C29: a process_document that fails changes neither the document store
\* nor the index (in memory or persisted); a file of the document store
\* belongs to a call that returned success.
C29_AllOrNothing ==
  [][(last'.op = "process_document" /\ last'.ret = "raised")
       => /\ blobs' = blobs
          /\ inst'[last'.h].entries = inst[last'.h].entries
          /\ disk' = disk /\ chroma' = chroma]_vars

\* C30: when a process_document ends, by return or by exception, the
\* temporary file it made is gone: the call leaves no more temporary files
\* on disk than it found.
C30_TempFileDeleted ==
  [][last'.op = "process_document" => temps' = temps]_vars

\* C25: the chat route is a pass-through to ask: what it answers (answer,
\* sources, confidence, conversation_id, or a failure) is what
\* ChatService.process_question gives for the same question, conversation id
\* and index state.
C25_RouteIsAsk ==
  \A i \in Inst :
    (last.op = "chat" /\ inst[i].up) =>
      \E id \in (IF NotConversationId(last.cid) THEN UUIDs ELSE {last.cid[1]}) :
        LET r == ProcessQuestionResult(inst[i], last.arg, id, "ok", last.llm)
        IN  /\ (last.ret = "response") <=> (r.ret = "envelope")
            /\ last.ret = "response" =>
                  /\ last.response.answer = r.envelope.answer
                  /\ last.response.sources = r.envelope.sources
                  /\ last.response.confidence = r.envelope.confidence
                  /\ last.response.conversation_id = <<r.envelope.conversation_id>>

C27_NoLostInsert ==
  (\A i \in DOMAIN inst : ~inst[i].failed) =>
    \A i \in DOMAIN inst :
      inst[i].up =>
        \A n \in 1..Len(inst[i].entries) :
          \E m \in 1..Len(Persisted("vss")) : Persisted("vss")[m] = inst[i].entries[n]

\* An insert between the start of its append in memory and the end of its
\* persist step.
Writing(t) ==
  /\ t.op \in Inserts
  /\ \/ t.pc = "appending" /\ t.done > 0
     \/ t.pc \in {"write_faiss", "write_pkl"}

\* An insert that has appended some of its documents and not yet the rest.
Partway(t) == t.pc = "appending" /\ 0 < t.done /\ t.done < Len(t.docs)

\* C21: inserts are serialized: no two requests are at the same time between
\* the start of their in-memory append and the end of their persist step.
C21_InsertsSerialized ==
  \A r, u \in Requests :
    (r # u) => ~(Writing(loop.tasks[r]) /\ Writing(loop.tasks[u]))

\* One insert is between append and persist while another insert has been
\* called and waits.
C21_Witness ==
  \E r, u \in Requests :
    /\ r # u
    /\ Writing(loop.tasks[r])
    /\ loop.tasks[u].op \in Inserts /\ loop.tasks[u].pc = "called"

\* C22: a search never reads the index while an insert has appended only
\* part of its documents: it sees the index before the insert or after it.
C22_SearchSeesNoPartialInsert ==
  [][\A r \in Requests :
       (loop.tasks[r].op \in Searches /\ loop.tasks[r].pc = "called"
          /\ loop'.tasks[r].pc = "idle")
         => \A u \in Requests : ~Partway(loop.tasks[u])]_vars

\* A search that arrived while an insert of two documents had appended one
\* of them has returned, with both documents in its result.
C22_Witness ==
  /\ last.op = "search" /\ last.during
  /\ last.env = "ok" /\ Len(last.out) = 2
  /\ {last.out[1].content, last.out[2].content} = {"t1", "t2"}

\* C23: whenever no write of the index is under way, also after a persist
\* step that failed in the middle, the persisted index holds a vector for an
\* entry exactly if it holds the entry's text and metadata: index.faiss and
\* index.pkl describe the same entries.
C23_VectorsAndDocsTogether ==
  (\A r \in Requests : loop.tasks[r].pc # "write_pkl") =>
    /\ disk.faiss.exists <=> disk.pkl.exists
    /\ Len(disk.faiss.vecs) = Len(disk.pkl.docs)
    /\ \A j \in 1..Len(disk.faiss.vecs) :
         disk.faiss.vecs[j] = Embed(disk.pkl.docs[j].content)

====
